---- MODULE Spec2Model ----
(***************************************************************************)
(* Evaluation engine of the coding teaching assistant                      *)
(* (src/prompt/teaching_evaluator.py): TeachingPromptEvaluator.evaluate,   *)
(* its judge _evaluate_single_response, and sample_balanced_cases.         *)
(*                                                                         *)
(* Numbers.  Sub-scores are held in hundredths (0.9 is 90), per-sample     *)
(* composite scores in thousandths (0.83 is 830) and the dimension scores  *)
(* of the report as exact fractions <<numerator, denominator>>.  Python    *)
(* floats are read as the exact decimals they denote.                      *)
(***************************************************************************)
EXTENDS Integers, Sequences, FiniteSets, TLC

(***************************************************************************)
(* Bounds of the model                                                     *)
(***************************************************************************)
MaxLen == 2          \* longest corpus of the free-running evaluation
LongLen == 21        \* corpus length of the long evaluation
LongFaults == 1      \* non-nominal service outcomes allowed in a long run
MaxCases == 3        \* longest list handed to sample_balanced_cases
MaxSamples == 3      \* largest max_samples
MaxCalls == 2        \* sampler calls in one process
RngMod == 4          \* number of states of the random generator
MaxRows == 1         \* most rows in one source of the loader

(***************************************************************************)
(* Program constants                                                       *)
(***************************************************************************)
max_retries == 3         \* teaching_evaluator.py:116
PassThreshold == 700     \* score >= 0.7, teaching_evaluator.py:146,149
LowThreshold == 850      \* score < 0.85, teaching_evaluator.py:162
ErrorSampleCap == 20     \* error_samples[:20], teaching_evaluator.py:231
DefaultSub == 50         \* metrics.get(..., 0.5), teaching_evaluator.py:311
NeutralScore == 500      \* return 0.5, ..., teaching_evaluator.py:288,326

Kinds == {"syntax", "runtime", "logical", "conceptual"}
Difficulties == {"beginner", "intermediate", "advanced"}

\* self.error_types[k]['weight'], in hundredths
error_types ==
    [k \in Kinds |-> CASE k = "syntax" -> 25
                       [] k = "runtime" -> 35
                       [] k = "logical" -> 25
                       [] k = "conceptual" -> 15]

(***************************************************************************)
(* Exact fractions                                                         *)
(***************************************************************************)
Abs(x) == IF x < 0 THEN -x ELSE x

Min(a, b) == IF a <= b THEN a ELSE b

Max(a, b) == IF a >= b THEN a ELSE b

RECURSIVE GCD(_, _)
GCD(a, b) == IF b = 0 THEN a ELSE GCD(b, a % b)

\* The fraction n/d (d > 0) in lowest terms.  Operands are bound to their
\* values once, by the set constructors.
Frac(n, d) ==
    CHOOSE r \in { IF p[1] = 0 THEN <<0, 1>>
                   ELSE <<p[1] \div p[3], p[2] \div p[3]>> :
                   p \in { <<a, b, GCD(Abs(a), b)>> : a \in {n}, b \in {d} } } :
        TRUE

FAdd(x, y) ==
    CHOOSE r \in { Frac(a[1] * b[2] + b[1] * a[2], a[2] * b[2]) :
                   a \in {x}, b \in {y} } : TRUE

FMul(x, y) ==
    CHOOSE r \in { Frac(a[1] * b[1], a[2] * b[2]) : a \in {x}, b \in {y} } :
        TRUE

FLe(x, y) == \E a \in {x}, b \in {y} : a[1] * b[2] <= b[1] * a[2]

FZero == <<0, 1>>

FOne == <<1, 1>>

InUnit(x) == FLe(FZero, x) /\ FLe(x, FOne)

(***************************************************************************)
(* The responder's and the grader's outcomes                               *)
(***************************************************************************)
\* Substrings _check_format looks for in the responder's text; "fence" is
\* the three-backquote marker of line 347.
CodeMarkers == {"fence", "def ", "return"}
\* The four keywords of line 350; the three Chinese ones are written in pinyin.
ExplanationMarkers == {"cuowu", "Error", "wenti", "xiuzheng"}

\* A value returned by llm_interface.invoke for the responder call.  A text
\* is known by the markers it contains.  "object" is a truthy value that is
\* not a string (response.strip() raises AttributeError).
None == [tag |-> "none", markers |-> {}]
EmptyText == [tag |-> "empty", markers |-> {}]
BlankText == [tag |-> "blank", markers |-> {}]
NonText == [tag |-> "object", markers |-> {}]
Text(m) == [tag |-> "text", markers |-> m]

\* the literal 'ERROR' stored as output at line 179
ErrorOutput == [tag |-> "ERROR", markers |-> {}]

NominalText == Text({"fence", "cuowu"})
Texts == {NominalText, Text({"def "})}
EmptyReplies == {EmptyText, BlankText}

\* A field of the grader's reply: absent, a number (hundredths) or a JSON
\* value that is not a number.
Absent == [st |-> "absent", v |-> 0]
Num(x) == [st |-> "num", v |-> x]
Str == [st |-> "str", v |-> 0]

\* A non-empty grader reply.  shape "json": re.search finds a brace span and
\* json.loads decodes it, the fields are the decoded values.  shape
\* "badjson": a brace span that json.loads rejects.  shape "prose": no brace
\* span.  For the last two the fields are what the three patterns of
\* _extract_metrics_manually match in the text (unsigned numbers only).
Reply(s, a, g, c, r) ==
    [shape |-> s, accuracy |-> a, guidance |-> g, clarity |-> c,
     failure_reason |-> r]

NominalReply == Reply("json", Num(90), Num(80), Num(70), "")

\* eval_result when the grader gave no text
NoReply == Reply("none", Absent, Absent, Absent, "")
GraderTexts ==
    { NominalReply,
      Reply("json", Num(100), Num(100), Num(100), ""),
      Reply("json", Num(30), Num(30), Num(30), "wrong line"),
      Reply("json", Num(100), Num(500), Num(100), ""),
      Reply("json", Num(90), Absent, Absent, "too terse"),
      Reply("json", Str, Num(80), Num(70), ""),
      Reply("badjson", Num(90), Num(80), Absent, ""),
      Reply("prose", Absent, Absent, Absent, "") }

\* A test case: row['error_type'], row['difficulty'].  row['code'] and
\* row['expected_output'] are carried by the row's position in the corpus.
TestCase(k, d) == [error_type |-> k, difficulty |-> d]

CaseSet ==
    { TestCase("syntax", "beginner"), TestCase("runtime", "intermediate") }

RECURSIVE SeqsUpTo(_, _)
SeqsUpTo(S, n) ==
    IF n = 0 THEN {<<>>}
    ELSE LET shorter == SeqsUpTo(S, n - 1)
         IN  shorter \cup
             {Append(s, x) : s \in {t \in shorter : Len(t) = n - 1}, x \in S}

VARIABLES
    corpus,             \* test_data
    pc,                 \* position of evaluate
    idx,                \* row being processed (1-based)
    retry,              \* loop variable of the retry loop
    response,           \* response
    type_counts,        \* type_counts
    difficulty_counts,  \* difficulty_counts
    stats,              \* stats
    total_score,        \* total_score (thousandths)
    perf_vector,        \* perf_vector
    error_samples,      \* error_samples
    evidence,           \* (final_score, evidence) once evaluate returned
    faults,             \* non-nominal service outcomes still allowed (-1: any)
    invocations,        \* history: responder calls made for the current row
    first_text,         \* history: first text the responder returned for the row
    scores,             \* history: row and composite score of every processed row
    grader_calls,       \* history: grader calls made for the current row
    last_judge,         \* history: what the judge returned for the current row
    cases,              \* sample_balanced_cases: cases
    rng,                \* state of the module-level random generator
    seed_used,          \* the seed this process hands to the sampler
    sampler_calls,      \* history: completed sample_balanced_cases calls
    last_call,          \* history: the most recent sampler call
    loader_pc,          \* position of prepare_teaching_dataset
    csv_idx,            \* position of the loop over csv_paths (1-based)
    all_dataframes,     \* load_error_database: all_dataframes
    skipped,            \* history: sources that could not be read
    error_db,           \* what load_error_database returned
    test_data           \* what prepare_teaching_dataset returned

evalVars ==
    <<corpus, pc, idx, retry, response, type_counts, difficulty_counts, stats,
      total_score, perf_vector, error_samples, evidence, faults, invocations,
      first_text, scores, grader_calls, last_judge>>

samplerVars == <<cases, rng, seed_used, sampler_calls, last_call>>

loaderVars ==
    <<loader_pc, csv_idx, all_dataframes, skipped, error_db, test_data>>

vars == <<evalVars, samplerVars, loaderVars>>

aggVars ==
    <<type_counts, difficulty_counts, stats, total_score, perf_vector,
      error_samples, scores>>

(***************************************************************************)
(* The judge: _evaluate_single_response and its helpers                    *)
(***************************************************************************)
\* _check_format
_check_format(resp) ==
    LET has_code == resp.markers \cap CodeMarkers # {}
        has_explanation == resp.markers \cap ExplanationMarkers # {}
    IN  has_code /\ has_explanation

\* _extract_metrics_manually: a pattern that matches gives its number, the
\* others 0.5; the result has no failure_reason.
_extract_metrics_manually(g) ==
    LET pick(f) == IF f.st = "num" /\ f.v >= 0 THEN f ELSE Num(DefaultSub)
    IN  [accuracy |-> pick(g.accuracy), guidance |-> pick(g.guidance),
         clarity |-> pick(g.clarity), failure_reason |-> ""]

\* metrics, lines 295-307
ParseMetrics(g) ==
    IF g.shape = "json"
    THEN [accuracy |-> g.accuracy, guidance |-> g.guidance,
          clarity |-> g.clarity, failure_reason |-> g.failure_reason]
    ELSE _extract_metrics_manually(g)

\* metrics.get(name, 0.5)
Get(f) == IF f.st = "absent" THEN Num(DefaultSub) ELSE f

\* lines 310-314, in thousandths
Composite(a, g, c) == a * 5 + g * 3 + c * 2

\* The (score, metrics) pair _evaluate_single_response returns for a
\* non-empty grader reply, lines 294-330.  A decoded value that is not a
\* number makes the arithmetic raise TypeError, caught at line 322.
JudgeReply(resp, g) ==
    LET m == ParseMetrics(g)
        a == Get(m.accuracy)
        gu == Get(m.guidance)
        c == Get(m.clarity)
    IN  IF a.st = "str" \/ gu.st = "str" \/ c.st = "str"
        THEN [score |-> NeutralScore, format_correct |-> _check_format(resp),
              educational_value |-> DefaultSub, failure_reason |-> "TypeError"]
        ELSE [score |-> Composite(a.v, gu.v, c.v),
              format_correct |-> _check_format(resp),
              educational_value |-> gu.v,
              failure_reason |-> m.failure_reason]

\* lines 286-292: the grader returned an empty reply
JudgeEmpty(resp) ==
    [score |-> NeutralScore, format_correct |-> _check_format(resp),
     educational_value |-> DefaultSub, failure_reason |-> "LLM returned empty"]

\* str(e) of an exception the grader call raises: a message, or nothing
\* for an exception raised without arguments
ErrorTexts == {"timed out", ""}

\* JudgeRaised scoring the row 0
JudgeRaised_Zero(resp, err) ==
    [score |-> 0, format_correct |-> _check_format(resp),
     educational_value |-> 0, failure_reason |-> err]

\* lines 322-330: the grader call raised; failure_reason is str(e)
JudgeRaised(resp, err) ==
    [score |-> NeutralScore, format_correct |-> _check_format(resp),
     educational_value |-> DefaultSub, failure_reason |-> err]

(***************************************************************************)
(* evaluate                                                                *)
(***************************************************************************)
NoEvidence == [returned |-> FALSE]

\* no call of _evaluate_single_response for the row so far
NotJudged == [outcome |-> "none"]

\* the grader's outcome, its reply (eval_result) and the (score, metrics)
\* pair returned at line 141
Judged(outcome, g, m) ==
    [outcome |-> outcome, reply |-> g, score |-> m.score,
     format_correct |-> m.format_correct,
     educational_value |-> m.educational_value,
     failure_reason |-> m.failure_reason]

InitCounters ==
    /\ idx = 1
    /\ retry = 0
    /\ response = None
    /\ type_counts = [k \in Kinds |-> 0]
    /\ difficulty_counts = [d \in Difficulties |-> 0]
    /\ stats = [correct |-> [k \in Kinds \cup Difficulties |-> 0],
                format_correct |-> 0,
                educational_value_sum |-> 0,
                total |-> Len(corpus)]
    /\ total_score = 0
    /\ perf_vector = <<>>
    /\ error_samples = <<>>
    /\ evidence = NoEvidence
    /\ invocations = 0
    /\ first_text = None
    /\ scores = <<>>
    /\ grader_calls = 0
    /\ last_judge = NotJudged

NoCall ==
    [status |-> "none", max_samples |-> 0, seed |-> 0, unseeded |-> FALSE,
     out |-> <<>>, repeated |-> FALSE, count |-> 0]

SamplerIdle ==
    /\ cases = <<>>
    /\ rng = 0
    /\ seed_used = 42
    /\ sampler_calls = {}
    /\ last_call = NoCall

\* load_error_database returned None
NoTable == [loaded |-> FALSE, rows |-> <<>>]

\* prepare_teaching_dataset is not running
LoaderIdle ==
    /\ loader_pc = "idle"
    /\ csv_idx = 1
    /\ all_dataframes = <<>>
    /\ skipped = 0
    /\ error_db = NoTable
    /\ test_data = <<>>

\* evaluate(system_prompt, test_data) on any corpus of at most MaxLen rows
Init ==
    /\ corpus \in SeqsUpTo(CaseSet, MaxLen)
    /\ faults = -1
    /\ pc = "loop"
    /\ InitCounters
    /\ SamplerIdle
    /\ LoaderIdle

\* A service outcome is allowed when it is the nominal one or the run may
\* still deviate.
Permit(nominal) == nominal \/ faults # 0

Spend(nominal) ==
    faults' = IF nominal \/ faults < 0 THEN faults ELSE faults - 1

\* BeginSample without the two increments of lines 98-99
BeginSample_Uncounted ==
    /\ pc = "loop"
    /\ idx <= Len(corpus)
    /\ response' = None
    /\ retry' = 0
    /\ invocations' = 0
    /\ first_text' = None
    /\ grader_calls' = 0
    /\ last_judge' = NotJudged
    /\ pc' = "respond"
    /\ UNCHANGED <<corpus, idx, type_counts, difficulty_counts, stats,
                   total_score, perf_vector, error_samples, evidence, faults,
                   scores, samplerVars, loaderVars>>

\* lines 91-99, 115-116: next row, counted before anything is asked
BeginSample ==
    /\ pc = "loop"
    /\ idx <= Len(corpus)
    /\ type_counts' =
         [type_counts EXCEPT ![corpus[idx].error_type] = @ + 1]
    /\ difficulty_counts' =
         [difficulty_counts EXCEPT ![corpus[idx].difficulty] = @ + 1]
    /\ response' = None
    /\ retry' = 0
    /\ invocations' = 0
    /\ first_text' = None
    /\ grader_calls' = 0
    /\ last_judge' = NotJudged
    /\ pc' = "respond"
    /\ UNCHANGED <<corpus, idx, stats, total_score, perf_vector, error_samples,
                   evidence, faults, scores, samplerVars, loaderVars>>

\* Exhausted without the continue of line 138: the row goes on to the judge
Exhausted_Judged ==
    /\ pc' = "judge"
    /\ UNCHANGED <<idx, aggVars>>

\* lines 135-138: no usable response after the retry loop
Exhausted ==
    /\ perf_vector' = Append(perf_vector, 0)
    /\ scores' = Append(scores, [row |-> idx, score |-> 0])
    /\ idx' = idx + 1
    /\ pc' = "loop"
    /\ UNCHANGED <<type_counts, difficulty_counts, stats, total_score,
                   error_samples>>

\* OuterHandler letting the exception leave evaluate
OuterHandler_Reraise(err) ==
    /\ pc' = "raised"
    /\ UNCHANGED <<idx, aggVars>>

\* lines 173-183: except Exception at the row boundary
OuterHandler(err) ==
    /\ perf_vector' = Append(perf_vector, 0)
    /\ error_samples' =
         Append(error_samples,
                [input |-> idx, output |-> ErrorOutput, error |-> err,
                 error_type |-> corpus[idx].error_type,
                 difficulty |-> corpus[idx].difficulty])
    /\ scores' = Append(scores, [row |-> idx, score |-> 0])
    /\ idx' = idx + 1
    /\ pc' = "loop"
    /\ UNCHANGED <<type_counts, difficulty_counts, stats, total_score>>

\* LoopBreaks without the break of line 125
LoopBreaks_Never(resp) == FALSE

\* line 124-125: the retry loop stops at this response
LoopBreaks(resp) == resp.tag = "text"

\* The retry loop after one attempt (lines 117-133) and, when the loop is
\* over, the test of line 135.  resp is the value response holds after the
\* attempt.
AfterAttempt(resp) ==
    /\ invocations' = invocations + 1
    /\ first_text' =
         IF first_text = None /\ resp.tag = "text" THEN resp ELSE first_text
    /\ response' = resp
    /\ IF ~LoopBreaks(resp) /\ retry + 1 < max_retries
       THEN /\ retry' = retry + 1
            /\ UNCHANGED <<pc, idx, aggVars>>
       ELSE /\ UNCHANGED retry
            /\ CASE resp.tag = "object" -> OuterHandler("AttributeError")
                 [] resp.tag \in {"none", "empty", "blank"} -> Exhausted
                 [] OTHER -> /\ pc' = "judge"
                             /\ UNCHANGED <<idx, aggVars>>
    /\ UNCHANGED <<corpus, evidence, grader_calls, last_judge, samplerVars,
                   loaderVars>>

\* line 119: the responder returns a text
ResponderText(t) ==
    /\ pc = "respond"
    /\ Permit(t = NominalText)
    /\ Spend(t = NominalText)
    /\ AfterAttempt(t)

\* line 119: the responder returns None, "" or whitespace
ResponderEmpty(e) ==
    /\ pc = "respond"
    /\ Permit(FALSE)
    /\ Spend(FALSE)
    /\ AfterAttempt(e)

\* line 119: the responder returns a value that is not a string; line 124
\* raises AttributeError, caught at line 130
ResponderObject ==
    /\ pc = "respond"
    /\ Permit(FALSE)
    /\ Spend(FALSE)
    /\ AfterAttempt(NonText)

\* line 119: the call raises or times out; response keeps its value
ResponderRaises ==
    /\ pc = "respond"
    /\ Permit(FALSE)
    /\ Spend(FALSE)
    /\ AfterAttempt(response)

\* PassBit with a strict comparison
PassBit_Strict(score) == IF score > PassThreshold THEN 1 ELSE 0

\* line 146
PassBit(score) == IF score >= PassThreshold THEN 1 ELSE 0

\* line 162
IsLowScore(score) == score < LowThreshold

\* Accumulate without the increment of line 151
Accumulate_KindOnly(m) ==
    LET row == corpus[idx]
        passed == m.score >= PassThreshold
    IN  /\ total_score' = total_score + m.score
        /\ perf_vector' = Append(perf_vector, PassBit(m.score))
        /\ stats' =
             [stats EXCEPT
                !.correct =
                    IF passed
                    THEN [@ EXCEPT ![row.error_type] = @ + 1]
                    ELSE @,
                !.format_correct = IF m.format_correct THEN @ + 1 ELSE @,
                !.educational_value_sum = @ + m.educational_value]
        /\ error_samples' =
             IF IsLowScore(m.score)
             THEN Append(error_samples,
                         [input |-> idx, output |-> response,
                          expected |-> idx,
                          error_type |-> row.error_type,
                          difficulty |-> row.difficulty,
                          score |-> m.score,
                          reason |-> m.failure_reason])
             ELSE error_samples
        /\ scores' = Append(scores, [row |-> idx, score |-> m.score])
        /\ idx' = idx + 1
        /\ pc' = "loop"
        /\ UNCHANGED <<corpus, retry, response, type_counts, difficulty_counts,
                       evidence, invocations, first_text, samplerVars,
                       loaderVars>>

\* lines 145-171: the row's result enters the counters
Accumulate(m) ==
    LET row == corpus[idx]
        passed == m.score >= PassThreshold
    IN  /\ total_score' = total_score + m.score
        /\ perf_vector' = Append(perf_vector, PassBit(m.score))
        /\ stats' =
             [stats EXCEPT
                !.correct =
                    IF passed
                    THEN [@ EXCEPT ![row.error_type] = @ + 1,
                                   ![row.difficulty] = @ + 1]
                    ELSE @,
                !.format_correct = IF m.format_correct THEN @ + 1 ELSE @,
                !.educational_value_sum = @ + m.educational_value]
        /\ error_samples' =
             IF IsLowScore(m.score)
             THEN Append(error_samples,
                         [input |-> idx, output |-> response,
                          expected |-> idx,
                          error_type |-> row.error_type,
                          difficulty |-> row.difficulty,
                          score |-> m.score,
                          reason |-> m.failure_reason])
             ELSE error_samples
        /\ scores' = Append(scores, [row |-> idx, score |-> m.score])
        /\ idx' = idx + 1
        /\ pc' = "loop"
        /\ UNCHANGED <<corpus, retry, response, type_counts, difficulty_counts,
                       evidence, invocations, first_text, samplerVars,
                       loaderVars>>

\* line 282: the grader returns a non-empty reply
GraderReplies(g) ==
    /\ pc = "judge"
    /\ Permit(g = NominalReply)
    /\ Spend(g = NominalReply)
    /\ grader_calls' = grader_calls + 1
    /\ last_judge' = Judged("reply", g, JudgeReply(response, g))
    /\ Accumulate(JudgeReply(response, g))

\* line 282: the grader returns an empty reply
GraderEmpty ==
    /\ pc = "judge"
    /\ Permit(FALSE)
    /\ Spend(FALSE)
    /\ grader_calls' = grader_calls + 1
    /\ last_judge' = Judged("empty", NoReply, JudgeEmpty(response))
    /\ Accumulate(JudgeEmpty(response))

\* line 282: the grader call raises an exception whose text is err
GraderRaises(err) ==
    /\ pc = "judge"
    /\ Permit(FALSE)
    /\ Spend(FALSE)
    /\ grader_calls' = grader_calls + 1
    /\ last_judge' = Judged("raised", NoReply, JudgeRaised(response, err))
    /\ Accumulate(JudgeRaised(response, err))

\* TypeTerm dividing by the number of all rows
TypeTerm_OverTotal(k) ==
    IF type_counts[k] > 0
    THEN Frac(stats.correct[k] * error_types[k], stats.total * 100)
    ELSE FZero

\* lines 188-193: one kind's term of error_detection_score
TypeTerm(k) ==
    IF type_counts[k] > 0
    THEN Frac(stats.correct[k] * error_types[k], type_counts[k] * 100)
    ELSE FZero

\* lines 188-193
ErrorDetectionScore ==
    FAdd(FAdd(TypeTerm("syntax"), TypeTerm("runtime")),
         FAdd(TypeTerm("logical"), TypeTerm("conceptual")))

\* DifficultyTerm averaging over the tiers that occur
DifficultyTerm_Renormalised(d) ==
    IF difficulty_counts[d] > 0
    THEN Frac(stats.correct[d],
              difficulty_counts[d]
                  * Cardinality({t \in Difficulties : difficulty_counts[t] > 0}))
    ELSE FZero

\* lines 203-206: one tier's term of difficulty_score
DifficultyTerm(d) ==
    IF difficulty_counts[d] > 0
    THEN Frac(stats.correct[d], difficulty_counts[d] * 3)
    ELSE FZero

\* lines 202-206
DifficultyScore ==
    FAdd(FAdd(DifficultyTerm("beginner"), DifficultyTerm("intermediate")),
         DifficultyTerm("advanced"))

\* line 196, for n > 0
EducationalScore(n) == Frac(stats.educational_value_sum, 100 * n)

\* line 199, for n > 0
FormatScore(n) == Frac(stats.format_correct, n)

\* lines 209-214
FinalScore(ed, edu, fmt, dif) ==
    FAdd(FAdd(FMul(ed, <<40, 100>>), FMul(edu, <<30, 100>>)),
         FAdd(FMul(fmt, <<20, 100>>), FMul(dif, <<10, 100>>)))

\* error_samples[:20], line 231
Truncated(s) == SubSeq(s, 1, Min(ErrorSampleCap, Len(s)))

\* lines 224-237
BuildEvidence(n) ==
    LET ed == ErrorDetectionScore
        edu == EducationalScore(n)
        fmt == FormatScore(n)
        dif == DifficultyScore
        final == FinalScore(ed, edu, fmt, dif)
    IN  [returned |-> TRUE,
         final_score |-> final,
         metrics |-> [overall_score |-> final,
                      error_detection |-> ed,
                      educational_value |-> edu,
                      format_compliance |-> fmt,
                      difficulty_adaptation |-> dif,
                      error_samples |-> Truncated(error_samples),
                      stats |-> stats],
         perf_vector |-> perf_vector,
         fp_samples |-> error_samples,
         error_samples |-> error_samples]

\* lines 185-241: the loop is over; with n = 0 line 196 divides by zero and
\* ZeroDivisionError leaves evaluate
Finish ==
    /\ pc = "loop"
    /\ idx > Len(corpus)
    /\ LET n == Len(corpus)
       IN  IF n = 0
           THEN /\ pc' = "raised"
                /\ UNCHANGED evidence
           ELSE /\ pc' = "returned"
                /\ evidence' = BuildEvidence(n)
    /\ UNCHANGED <<corpus, idx, retry, response, faults, invocations,
                   first_text, grader_calls, last_judge, aggVars,
                   samplerVars, loaderVars>>

Next ==
    \/ BeginSample
    \/ \E t \in Texts : ResponderText(t)
    \/ \E e \in EmptyReplies : ResponderEmpty(e)
    \/ ResponderObject
    \/ ResponderRaises
    \/ \E g \in GraderTexts : GraderReplies(g)
    \/ GraderEmpty
    \/ \E err \in ErrorTexts : GraderRaises(err)
    \/ Finish

Spec == Init /\ [][Next]_vars

\* evaluate on a corpus of LongLen rows of one stratum, the services
\* deviating from their nominal replies at most LongFaults times
InitLong ==
    /\ corpus \in {[i \in 1..LongLen |-> c] : c \in CaseSet}
    /\ faults = LongFaults
    /\ pc = "loop"
    /\ InitCounters
    /\ SamplerIdle
    /\ LoaderIdle

SpecLong == InitLong /\ [][Next]_vars

TypeOK ==
    /\ pc \in {"idle", "loop", "respond", "judge", "returned", "raised"}
    /\ idx \in 1..(Len(corpus) + 1)
    /\ retry \in 0..(max_retries - 1)

(***************************************************************************)
(* sample_balanced_cases                                                   *)
(*                                                                         *)
(* The module-level generator of random is a deterministic function of    *)
(* its state: random.seed(s) sets the state from s, every draw advances    *)
(* it.  The sampler's result is kept as the positions of the chosen cases  *)
(* in the list it was given; the returned list is the cases at those       *)
(* positions.                                                              *)
(***************************************************************************)
\* A case handed to the sampler; two cases are equal (==) when kind,
\* difficulty and text agree.
Case(k, d, c) == [error_type |-> k, difficulty |-> d, code |-> c]

SamplerCaseSet ==
    { Case("runtime", "beginner", "a"), Case("runtime", "beginner", "b"),
      Case("logical", "beginner", "a") }

Seeds == {42, 43}

\* random_seed leaving the generator as it is
random_seed_Skipped(state, seed) == state

\* random.seed(seed), line 607: the generator's state after seeding
random_seed(state, seed) == seed % RngMod

\* One draw: the generator's next state
Advance(state) == (state + 1) % RngMod

\* random_sample drawing with replacement
RECURSIVE random_sample_Replacing(_, _, _)
random_sample_Replacing(pool, k, state) ==
    IF k = 0
    THEN [out |-> <<>>, rng |-> state]
    ELSE LET st == Advance(state)
             j == (st % Len(pool)) + 1
             rest == random_sample_Replacing(pool, k - 1, st)
         IN  [out |-> <<pool[j]>> \o rest.out, rng |-> rest.rng]

\* random.sample(population, k): k draws without replacement, in draw order
\* (the pool algorithm of the standard library).  population is a sequence
\* of positions.
RECURSIVE random_sample(_, _, _)
random_sample(pool, k, state) ==
    IF k = 0
    THEN [out |-> <<>>, rng |-> state]
    ELSE LET n == Len(pool)
             st == Advance(state)
             j == (st % n) + 1
             moved == [pool EXCEPT ![j] = pool[n]]
             rest == random_sample(SubSeq(moved, 1, n - 1), k - 1, st)
         IN  [out |-> <<pool[j]>> \o rest.out, rng |-> rest.rng]

\* Order of the strings under sorted(): kinds and difficulties by rank
KindRank ==
    [k \in Kinds |-> CASE k = "conceptual" -> 1
                       [] k = "logical" -> 2
                       [] k = "runtime" -> 3
                       [] k = "syntax" -> 4]

DifficultyRank ==
    [d \in Difficulties |-> CASE d = "advanced" -> 1
                              [] d = "beginner" -> 2
                              [] d = "intermediate" -> 3]

\* rank of a key (error_type, difficulty) under tuple comparison
KeyRank(k, d) == (KindRank[k] - 1) * 3 + DifficultyRank[d]

\* the 12 possible keys in sorted order
SortedKeys ==
    [r \in 1..12 |->
        CHOOSE key \in Kinds \X Difficulties : KeyRank(key[1], key[2]) = r]

Positions(cs) == [i \in 1..Len(cs) |-> i]

\* groups[key], lines 610-615: positions of the cases of one stratum, in
\* list order
Group(cs, key) ==
    LET InKey(i) == cs[i].error_type = key[1] /\ cs[i].difficulty = key[2]
    IN  SelectSeq(Positions(cs), InKey)

\* len(groups)
GroupCount(cs) ==
    Cardinality({<<cs[i].error_type, cs[i].difficulty>> : i \in 1..Len(cs)})

\* lines 621-623: the loop over sorted(groups.items()) from key rank r on
RECURSIVE SampleGroups(_, _, _, _)
SampleGroups(cs, r, per_group, state) ==
    IF r > 12
    THEN [out |-> <<>>, rng |-> state]
    ELSE LET group_cases == Group(cs, SortedKeys[r])
             sample_count == Min(per_group, Len(group_cases))
             here == IF Len(group_cases) = 0
                     THEN [out |-> <<>>, rng |-> state]
                     ELSE random_sample(group_cases, sample_count, state)
             rest == SampleGroups(cs, r + 1, per_group, here.rng)
         IN  [out |-> here.out \o rest.out, rng |-> rest.rng]

\* line 627: [c for c in cases if c not in sampled], membership by ==
Remaining(cs, sampled) ==
    LET chosen == {cs[sampled[i]] : i \in 1..Len(sampled)}
        Free(i) == cs[i] \notin chosen
    IN  SelectSeq(Positions(cs), Free)

\* sample_balanced_cases drawing from the whole list, without the strata
sample_balanced_cases_Unstratified(cs, max_samples, seed, state) ==
    LET st0 == random_seed(state, seed)
    IN  IF Len(cs) = 0
        THEN [status |-> "raised", out |-> <<>>, rng |-> st0]
        ELSE LET drawn == random_sample(Positions(cs),
                                        Min(max_samples, Len(cs)), st0)
             IN  [status |-> "returned", out |-> drawn.out, rng |-> drawn.rng]

\* lines 604-632.  With no case at all len(groups) is 0 and line 619 raises
\* ZeroDivisionError, after the generator was seeded.
sample_balanced_cases(cs, max_samples, seed, state) ==
    LET st0 == random_seed(state, seed)
    IN  IF Len(cs) = 0
        THEN [status |-> "raised", out |-> <<>>, rng |-> st0]
        ELSE LET samples_per_group == Max(1, max_samples \div GroupCount(cs))
                 first == SampleGroups(cs, 1, samples_per_group, st0)
                 remaining == Remaining(cs, first.out)
                 additional == Min(max_samples - Len(first.out), Len(remaining))
                 extra == IF Len(first.out) < max_samples /\ Len(remaining) > 0
                          THEN random_sample(remaining, additional, first.rng)
                          ELSE [out |-> <<>>, rng |-> first.rng]
                 sampled == first.out \o extra.out
             IN  [status |-> "returned",
                  out |-> SubSeq(sampled, 1, Min(max_samples, Len(sampled))),
                  rng |-> extra.rng]

\* the cases at the chosen positions
Records(cs, out) == [i \in 1..Len(out) |-> cs[out[i]]]

EvalIdle ==
    /\ corpus = <<>>
    /\ faults = 0
    /\ pc = "idle"
    /\ InitCounters

\* A process that holds a list of cases and the seed it samples with
InitSampler ==
    /\ cases \in SeqsUpTo(SamplerCaseSet, MaxCases)
    /\ rng = 0
    /\ seed_used \in Seeds
    /\ sampler_calls = {}
    /\ last_call = NoCall
    /\ EvalIdle
    /\ LoaderIdle

\* sample_balanced_cases(cases, max_samples, seed) is called and finishes
CallSampler(max_samples, seed) ==
    /\ pc = "idle"
    /\ seed = seed_used
    /\ last_call.count < MaxCalls
    /\ \E r \in {sample_balanced_cases(cases, max_samples, seed, rng)} :
       LET entry == [max_samples |-> max_samples, seed |-> seed,
                     status |-> r.status, out |-> Records(cases, r.out)]
       IN  /\ rng' = r.rng
           /\ sampler_calls' = sampler_calls \cup {entry}
           /\ last_call' =
                [status |-> r.status, max_samples |-> max_samples,
                 seed |-> seed, out |-> r.out,
                 unseeded |-> rng # seed % RngMod,
                 repeated |-> \E e \in sampler_calls :
                                 /\ e.max_samples = max_samples
                                 /\ e.seed = seed,
                 count |-> last_call.count + 1]
    /\ UNCHANGED <<cases, seed_used, evalVars, loaderVars>>

\* some other code of the process draws a random number
OtherDraw ==
    /\ pc = "idle"
    /\ rng' = Advance(rng)
    /\ UNCHANGED <<cases, seed_used, sampler_calls, last_call, evalVars,
                   loaderVars>>

NextSampler ==
    \/ \E n \in 1..MaxSamples, s \in Seeds : CallSampler(n, s)
    \/ OtherDraw

SpecSampler == InitSampler /\ [][NextSampler]_vars

(***************************************************************************)
(* load_error_database and prepare_teaching_dataset                        *)
(*                                                                         *)
(* A source is a CSV file; reading it gives a frame (a sequence of raw     *)
(* records), or fails because the file is missing or cannot be parsed.     *)
(* The Chinese labels of the records are written in pinyin.                *)
(***************************************************************************)
NumSources == 3          \* the three paths of teaching_evaluator.py:361-365
PreparedSamples == 30    \* max_samples=30, teaching_evaluator.py:463
DefaultSeed == 42        \* seed: int = 42, teaching_evaluator.py:594

\* a row of a source: its error label and its level label
Raw(label, level) == [label |-> label, level |-> level]

RawSet == {Raw("suojin cuowu", "chuji"), Raw("weizhi", "weizhi")}

\* error_type_map.get(label, 'runtime'), lines 416-448
MapKind(label) ==
    CASE label = "suojin cuowu" -> "syntax"
      [] label = "chuling cuowu" -> "runtime"
      [] label = "luoji cuowu" -> "logical"
      [] label = "gainian cuowu" -> "conceptual"
      [] OTHER -> "runtime"

\* difficulty_map.get(level, 'beginner'), lines 442-449
MapDifficulty(level) ==
    CASE level = "chuji" -> "beginner"
      [] level = "zhongji" -> "intermediate"
      [] level = "gaoji" -> "advanced"
      [] OTHER -> "beginner"

\* lines 407-459: the test case built from one row
MapRecord(r) == Case(MapKind(r.label), MapDifficulty(r.level), r.label)

\* pd.concat(all_dataframes), line 387
RECURSIVE Concat(_)
Concat(frames) ==
    IF frames = <<>> THEN <<>> ELSE Head(frames) \o Concat(Tail(frames))

\* prepare_default_dataset, lines 634-810: kind and tier of its 13 cases
prepare_default_dataset ==
    << Case("logical", "beginner", "d1"), Case("syntax", "beginner", "d2"),
       Case("logical", "intermediate", "d3"), Case("logical", "beginner", "d4"),
       Case("logical", "intermediate", "d5"),
       Case("logical", "intermediate", "d6"), Case("logical", "advanced", "d7"),
       Case("conceptual", "beginner", "d8"),
       Case("conceptual", "intermediate", "d9"),
       Case("conceptual", "advanced", "d10"),
       Case("conceptual", "advanced", "d11"),
       Case("logical", "intermediate", "d12"),
       Case("logical", "intermediate", "d13") >>

\* prepare_teaching_dataset() is called
InitLoader ==
    /\ loader_pc = "read"
    /\ csv_idx = 1
    /\ all_dataframes = <<>>
    /\ skipped = 0
    /\ error_db = NoTable
    /\ test_data = <<>>
    /\ cases = <<>>
    /\ rng \in 0..(RngMod - 1)
    /\ seed_used = DefaultSeed
    /\ sampler_calls = {}
    /\ last_call = NoCall
    /\ EvalIdle

\* lines 372-376: read_csv returns the frame df
ReadCsv(df) ==
    /\ loader_pc = "read"
    /\ csv_idx <= NumSources
    /\ all_dataframes' = Append(all_dataframes, df)
    /\ csv_idx' = csv_idx + 1
    /\ UNCHANGED <<loader_pc, skipped, error_db, test_data, evalVars,
                   samplerVars>>

\* a source that cannot be read ends the whole load
SkipSource_Aborts ==
    /\ loader_pc' = "raised"
    /\ UNCHANGED <<csv_idx, skipped>>

\* lines 377-380: the handlers print and the loop goes on
SkipSource ==
    /\ skipped' = skipped + 1
    /\ csv_idx' = csv_idx + 1
    /\ UNCHANGED loader_pc

\* lines 372, 377-378: the file does not exist
ReadCsvMissing ==
    /\ loader_pc = "read"
    /\ csv_idx <= NumSources
    /\ SkipSource
    /\ UNCHANGED <<all_dataframes, error_db, test_data, evalVars, samplerVars>>

\* lines 372, 379-380: read_csv raises another exception
ReadCsvFails ==
    /\ loader_pc = "read"
    /\ csv_idx <= NumSources
    /\ SkipSource
    /\ UNCHANGED <<all_dataframes, error_db, test_data, evalVars, samplerVars>>

\* lines 382-390: None when nothing was read, else the frames in one table
ReturnDatabase ==
    /\ loader_pc = "read"
    /\ csv_idx > NumSources
    /\ error_db' = IF all_dataframes = <<>> THEN NoTable
                   ELSE [loaded |-> TRUE, rows |-> Concat(all_dataframes)]
    /\ loader_pc' = "loaded"
    /\ UNCHANGED <<csv_idx, all_dataframes, skipped, test_data, evalVars,
                   samplerVars>>

\* lines 400-466: the default dataset when there is no row, else the rows
\* mapped to test cases and sampled
PrepareDataset ==
    /\ loader_pc = "loaded"
    /\ IF ~error_db.loaded \/ Len(error_db.rows) = 0
       THEN /\ test_data' = prepare_default_dataset
            /\ UNCHANGED rng
       ELSE \E r \in { sample_balanced_cases(
                          [i \in 1..Len(error_db.rows) |->
                              MapRecord(error_db.rows[i])],
                          PreparedSamples, DefaultSeed, rng) } :
               /\ test_data' =
                    Records([i \in 1..Len(error_db.rows) |->
                                MapRecord(error_db.rows[i])], r.out)
               /\ rng' = r.rng
    /\ loader_pc' = "prepared"
    /\ UNCHANGED <<csv_idx, all_dataframes, skipped, error_db, evalVars,
                   cases, seed_used, sampler_calls, last_call>>

NextLoader ==
    \/ \E df \in SeqsUpTo(RawSet, MaxRows) : ReadCsv(df)
    \/ ReadCsvMissing
    \/ ReadCsvFails
    \/ ReturnDatabase
    \/ PrepareDataset

SpecLoader == InitLoader /\ [][NextLoader]_vars

(***************************************************************************)
(* Properties                                                              *)
(***************************************************************************)
\* evaluate, with the weak fairness of a program that keeps running: every
\* call to a service ends in a reply, an empty reply or an error.
\* The corpora are those of one stratum, of any length up to MaxLen.
InitUniform ==
    /\ corpus \in {[i \in 1..n |-> TestCase("runtime", "beginner")] :
                      n \in 0..MaxLen}
    /\ faults = -1
    /\ pc = "loop"
    /\ InitCounters
    /\ SamplerIdle
    /\ LoaderIdle

SpecFair == InitUniform /\ [][Next]_vars /\ WF_vars(Next)

\* the failure reason (or error text) an entry of error_samples carries
EntryReason(e) == IF "reason" \in DOMAIN e THEN e.reason ELSE e.error

\* the row that was just finished ended with the responder's retries used up
LastRowExhausted ==
    /\ pc = "loop"
    /\ idx > 1
    /\ response.tag \in {"none", "empty", "blank"}

\* the row that was just finished ended in the handler of line 173
LastRowException ==
    /\ pc = "loop"
    /\ idx > 1
    /\ response.tag = "object"

\* C1: the report evaluate returns has overall_score and each of the four
\* dimension scores in [0,1], whatever the responder and the grader reply.
C1_ScoresInUnitInterval ==
    pc = "returned" =>
        /\ InUnit(evidence.metrics.overall_score)
        /\ InUnit(evidence.metrics.error_detection)
        /\ InUnit(evidence.metrics.educational_value)
        /\ InUnit(evidence.metrics.format_compliance)
        /\ InUnit(evidence.metrics.difficulty_adaptation)

\* C2: evaluate on an empty corpus does not raise and returns a report with
\* overall_score and the four dimension scores 0 and a sample count of 0.
C2_EmptyCorpusReport ==
    Len(corpus) = 0 =>
        /\ pc # "raised"
        /\ pc = "returned" =>
              /\ evidence.metrics.overall_score = FZero
              /\ evidence.metrics.error_detection = FZero
              /\ evidence.metrics.educational_value = FZero
              /\ evidence.metrics.format_compliance = FZero
              /\ evidence.metrics.difficulty_adaptation = FZero
              /\ evidence.metrics.stats.total = 0

\* C3: a row whose responder gave only empty, blank or failed replies on
\* every attempt has composite score 0 and a non-empty failure reason
\* recorded for it in error_samples.
C3_ExhaustedRecorded ==
    LastRowExhausted =>
        /\ scores[idx - 1].score = 0
        /\ perf_vector[idx - 1] = 0
        /\ \E i \in 1..Len(error_samples) :
              /\ error_samples[i].input = idx - 1
              /\ EntryReason(error_samples[i]) # ""

\* C4: per row the responder is invoked at least once and at most
\* max_retries times, every reply that is not a text and every error uses
\* exactly one attempt, nothing is asked after the first text, and that text
\* is the response that is judged.
C4_RetryDiscipline ==
    /\ invocations <= max_retries
    /\ pc = "respond" => invocations = retry /\ first_text = None
    /\ pc = "judge" =>
          /\ invocations >= 1
          /\ first_text.tag = "text"
          /\ response = first_text
    /\ pc = "loop" /\ idx > 1 => invocations >= 1
    /\ LastRowExhausted \/ LastRowException => invocations = max_retries

\* the third attempt, after two failed ones, gave the text that is judged
C4_Witness ==
    /\ pc = "judge"
    /\ invocations = max_retries
    /\ response.tag = "text"

\* C5: on a corpus with rows, whatever the services do, the run is never
\* aborted, every row is processed, evaluate returns a report, and a row
\* that raised an unexpected exception is scored 0 and recorded with the
\* error text in error_samples.
C5_RunCompletes ==
    /\ [](Len(corpus) > 0 => pc # "raised")
    /\ [](pc = "returned" =>
            /\ Len(scores) = Len(corpus)
            /\ Len(evidence.perf_vector) = Len(corpus)
            /\ \A i \in 1..Len(error_samples) :
                  evidence.error_samples[i] = error_samples[i])
    /\ [](LastRowException =>
            /\ scores[idx - 1].score = 0
            /\ perf_vector[idx - 1] = 0
            /\ LET e == error_samples[Len(error_samples)]
               IN  /\ e.input = idx - 1
                   /\ e.output = ErrorOutput
                   /\ e.error # "")
    /\ []((pc = "loop" /\ idx = 1 /\ Len(corpus) > 0) => <>(pc = "returned"))

\* a report was returned for a corpus one of whose rows raised
C5_Witness ==
    /\ pc = "returned"
    /\ Len(corpus) = MaxLen
    /\ \E i \in 1..Len(error_samples) : error_samples[i].output = ErrorOutput

\* C6: sample_balanced_cases(C, n, seed) returns exactly min(n, len(C))
\* cases, also when C holds equal cases or more strata than n.
C6_SampleSize ==
    last_call.status = "returned" =>
        Len(last_call.out) = Min(last_call.max_samples, Len(cases))

\* C7: two calls of the sampler with the same cases, max_samples and seed
\* return the same list, whatever was drawn or sampled in between.
C7_Deterministic ==
    \A a, b \in sampler_calls :
        a.max_samples = b.max_samples /\ a.seed = b.seed => a = b

\* a call repeated with the generator in another state than seeding gives
C7_Witness ==
    /\ last_call.status = "returned"
    /\ last_call.repeated
    /\ last_call.unseeded
    /\ Len(last_call.out) >= 2

RECURSIVE IsSubsequence(_, _)
IsSubsequence(s, t) ==
    IF s = <<>> THEN TRUE
    ELSE IF t = <<>> THEN FALSE
    ELSE IF Head(s) = Head(t) THEN IsSubsequence(Tail(s), Tail(t))
    ELSE IsSubsequence(s, Tail(t))

\* no position of the list is chosen twice and every choice is a position
NoRepeat(out, n) ==
    /\ \A i \in 1..Len(out) : out[i] \in 1..n
    /\ \A i, j \in 1..Len(out) : i # j => out[i] # out[j]

\* C8 as stated: the output is a subsequence of the input: its cases are
\* cases of the input, none chosen twice, in the input's relative order.
C8_Subsequence ==
    last_call.status = "returned" =>
        /\ NoRepeat(last_call.out, Len(cases))
        /\ IsSubsequence(Records(cases, last_call.out), cases)

\* C8 amended: every output case is a case of the input and no position of
\* the input is chosen more than once (the order is that of the draws).
C8_Selection ==
    last_call.status = "returned" =>
        NoRepeat(last_call.out, Len(cases))

\* a later case of the input is returned before an earlier one
C8_Witness ==
    /\ last_call.status = "returned"
    /\ Len(last_call.out) >= 2
    /\ last_call.out[1] > last_call.out[2]

\* C9: the pass vector has one entry per finished row, in corpus order,
\* which is 1 exactly when the row's composite score is >= 0.7; on return it
\* has one entry per test case.
C9_PassVector ==
    /\ Len(perf_vector) = Len(scores)
    /\ Len(perf_vector) = idx - 1
    /\ \A i \in 1..Len(scores) :
          /\ scores[i].row = i
          /\ perf_vector[i] = 1 <=> scores[i].score >= PassThreshold
          /\ perf_vector[i] \in {0, 1}
    /\ pc = "returned" =>
          /\ evidence.perf_vector = perf_vector
          /\ Len(evidence.perf_vector) = Len(corpus)

\* a report whose pass vector has a 1 for a row scoring exactly 0.7 and a 0
\* for a row without response
C9_Witness ==
    /\ pc = "returned"
    /\ Len(corpus) = MaxLen
    /\ scores[1].score = PassThreshold
    /\ perf_vector[1] = 1
    /\ evidence.perf_vector[Len(corpus)] = 0

\* inputs of the entries, which must increase in evaluation order
InEvaluationOrder(s) ==
    \A i, j \in 1..Len(s) : i < j => s[i].input < s[j].input

\* C10: no low-score collection of the evidence has more than 20 entries,
\* and each is in evaluation order.
C10_LowScoreCap ==
    pc = "returned" =>
        /\ Len(evidence.metrics.error_samples) <= ErrorSampleCap
        /\ Len(evidence.fp_samples) <= ErrorSampleCap
        /\ Len(evidence.error_samples) <= ErrorSampleCap
        /\ InEvaluationOrder(evidence.metrics.error_samples)
        /\ InEvaluationOrder(evidence.fp_samples)
        /\ InEvaluationOrder(evidence.error_samples)

\* the fields line 163-171 stores for a collected row
LowScoreFields ==
    {"input", "output", "expected", "error_type", "difficulty", "score",
     "reason"}

\* error_samples holds a complete low-score entry for row i
Collected(i) ==
    \E j \in 1..Len(error_samples) :
        /\ error_samples[j].input = i
        /\ LowScoreFields \subseteq DOMAIN error_samples[j]
        /\ error_samples[j].score = scores[i].score

\* C11: a finished row is in the low-score samples, with input, response,
\* expected outcome, kind, difficulty, score and failure reason, exactly when
\* its composite score is below 0.85; this includes the rows scored 0
\* because the responder's retries were used up.
C11_CollectedIffLow ==
    \A i \in 1..Len(scores) :
        Collected(i) <=> scores[i].score < LowThreshold

\* C12: the grader is never called for a row whose responder used up its
\* retries; for every other row it is called exactly once, after the
\* responder's accepted text and before the responder is asked about the
\* next row.
C12_GraderOnce ==
    /\ [](grader_calls \in {0, 1})
    /\ [](pc \in {"respond", "judge"} => grader_calls = 0)
    /\ [](pc = "judge" => response.tag = "text" /\ response = first_text)
    /\ [](pc = "loop" /\ idx > 1 =>
            (grader_calls = 1 <=> response.tag = "text"))
    /\ [](LastRowExhausted \/ LastRowException => grader_calls = 0)
    /\ [][grader_calls' = grader_calls + 1 =>
            /\ pc = "judge"
            /\ pc' = "loop"
            /\ idx' = idx + 1]_vars
    /\ [][invocations' = invocations + 1 =>
            pc = "respond" /\ grader_calls = 0]_vars

\* a report for a corpus whose first row got no response and was not
\* judged and whose last row was judged once
C12_Witness ==
    /\ pc = "returned"
    /\ Len(corpus) = MaxLen
    /\ scores[1].score = 0
    /\ \A i \in 1..Len(error_samples) : error_samples[i].input # 1
    /\ grader_calls = 1

\* the row that was just finished was judged without a usable grader reply
GraderFailed == pc = "loop" /\ last_judge.outcome \in {"empty", "raised"}

\* the neutral result of lines 288-292 and 326-330: composite 0.5,
\* guidance 0.5, format_correct as _check_format finds the response
NeutralResult ==
    /\ grader_calls = 1
    /\ last_judge.score = NeutralScore
    /\ last_judge.educational_value = DefaultSub
    /\ last_judge.format_correct = _check_format(response)
    /\ scores[idx - 1] = [row |-> idx - 1, score |-> NeutralScore]
    /\ perf_vector[idx - 1] = 0
    /\ \A i \in 1..Len(error_samples) :
          error_samples[i].input = idx - 1 =>
              error_samples[i].output = response

\* C13 as stated: when the grader returns an empty reply or raises, it is
\* not called again for the row, the row gets the neutral result (composite
\* 0.5, guidance 0.5, format_ok from the responder's text) with a non-empty
\* failure reason, and the error stays inside the judge.
C13_NeutralWithReason ==
    GraderFailed => NeutralResult /\ last_judge.failure_reason # ""

\* C13 amended: the same, the failure reason being non-empty for an empty
\* reply; after an exception it is the exception's text, whatever that is.
C13_NeutralDefaults ==
    /\ GraderFailed =>
          /\ NeutralResult
          /\ last_judge.outcome = "empty" => last_judge.failure_reason # ""
    /\ last_judge.outcome = "raised" => last_judge.failure_reason \in ErrorTexts

\* the grader raised an exception without text on a well-formed response
C13_Witness ==
    /\ GraderFailed
    /\ last_judge.outcome = "raised"
    /\ last_judge.failure_reason = ""
    /\ last_judge.format_correct

\* the row that was just finished was judged on a non-empty grader reply
GraderReplied == pc = "loop" /\ last_judge.outcome = "reply"

\* a sub-score of a reply: the number obtained, else the default 0.5
SubScore(f) == IF f.st = "num" THEN f.v ELSE 50

\* 0.5*accuracy + 0.3*guidance + 0.2*clarity in thousandths
Weighted(g) ==
    5 * SubScore(g.accuracy) + 3 * SubScore(g.guidance)
        + 2 * SubScore(g.clarity)

\* C14: for every grader reply the composite score is
\* 0.5*accuracy + 0.3*guidance + 0.2*clarity over the sub-scores obtained
\* from the reply, a sub-score that was not obtained counting 0.5; 0.9, 0.8,
\* 0.7 give 0.83 and a reply without sub-scores gives 0.5.
C14_CompositeEveryReply ==
    GraderReplied =>
        /\ last_judge.score = Weighted(last_judge.reply)
        /\ last_judge.reply = NominalReply => last_judge.score = 830
        /\ last_judge.reply.shape = "prose" => last_judge.score = 500

\* The end-to-end scenario: one row of each kind, and grader replies whose
\* composites are 0.9, 0.3, 0.95 and 0.6
FourKinds ==
    << TestCase("syntax", "beginner"), TestCase("runtime", "beginner"),
       TestCase("logical", "beginner"), TestCase("conceptual", "beginner") >>

ScenarioReplies ==
    { Reply("json", Num(90), Num(90), Num(90), ""),
      Reply("json", Num(30), Num(30), Num(30), "wrong line"),
      Reply("json", Num(95), Num(95), Num(95), ""),
      Reply("json", Num(60), Num(60), Num(60), "no hint") }

\* evaluate on the scenario's corpus or on any corpus of at most MaxLen rows
InitScenario ==
    /\ corpus \in SeqsUpTo(CaseSet, MaxLen) \cup {FourKinds}
    /\ faults = -1
    /\ pc = "loop"
    /\ InitCounters
    /\ SamplerIdle
    /\ LoaderIdle

\* the responder answers with a text or with nothing, the grader with one
\* of the scenario's replies
NextScenario ==
    \/ BeginSample
    \/ ResponderText(NominalText)
    \/ ResponderEmpty(EmptyText)
    \/ \E g \in ScenarioReplies : GraderReplies(g)
    \/ Finish

SpecScenario == InitScenario /\ [][NextScenario]_vars

\* rows of kind (or tier) x, and those among them that passed
RowsOf(x) ==
    {i \in 1..Len(corpus) : x \in {corpus[i].error_type, corpus[i].difficulty}}

PassedOf(x) == {i \in RowsOf(x) : scores[i].score >= PassThreshold}

\* weight * passed / count for a kind that occurs, nothing for one that
\* does not; w in hundredths
KindShare(k, w) ==
    IF RowsOf(k) = {} THEN FZero
    ELSE Frac(w * Cardinality(PassedOf(k)), 100 * Cardinality(RowsOf(k)))

\* C15: error_detection_score is the sum over the kinds that occur in the
\* corpus of weight * (rows of the kind with composite >= 0.7) / (rows of
\* the kind), weights 0.25, 0.35, 0.25, 0.15, without renormalisation; one
\* row per kind with composites 0.9, 0.3, 0.95, 0.6 gives 0.50.
C15_ErrorDetection ==
    pc = "returned" =>
        /\ evidence.metrics.error_detection =
              FAdd(FAdd(KindShare("syntax", 25), KindShare("runtime", 35)),
                   FAdd(KindShare("logical", 25), KindShare("conceptual", 15)))
        /\ ( /\ corpus = FourKinds
             /\ [i \in 1..4 |-> scores[i].score] = <<900, 300, 950, 600>> )
           => evidence.metrics.error_detection = <<1, 2>>

\* the report of the scenario
C15_Witness ==
    /\ pc = "returned"
    /\ corpus = FourKinds
    /\ [i \in 1..4 |-> scores[i].score] = <<900, 300, 950, 600>>
    /\ evidence.metrics.error_detection = <<1, 2>>

\* the difficulty tiers that have a row in the corpus
TiersPresent == {d \in Difficulties : RowsOf(d) # {}}

\* (passed / count) / 3 for a tier that occurs, nothing for one that does not
TierShare(d) ==
    IF RowsOf(d) = {} THEN FZero
    ELSE Frac(Cardinality(PassedOf(d)), 3 * Cardinality(RowsOf(d)))

\* C16: difficulty_score is the sum over the tiers with at least one row of
\* (rows of the tier that passed / rows of the tier) / 3; the divisor is 3
\* also when fewer than three tiers occur, so with k tiers present the score
\* is at most k/3.
C16_DifficultyScore ==
    pc = "returned" =>
        /\ evidence.metrics.difficulty_adaptation =
              FAdd(FAdd(TierShare("beginner"), TierShare("intermediate")),
                   TierShare("advanced"))
        /\ FLe(evidence.metrics.difficulty_adaptation,
               Frac(Cardinality(TiersPresent), 3))

\* every row of a corpus with two tiers passed: the score is 2/3, not 1
C16_Witness ==
    /\ pc = "returned"
    /\ Cardinality(TiersPresent) = 2
    /\ \A i \in 1..Len(corpus) : perf_vector[i] = 1
    /\ evidence.metrics.difficulty_adaptation = <<2, 3>>

\* every source was either read or skipped, and the load was not aborted
SourcesAccounted ==
    /\ loader_pc # "raised"
    /\ loader_pc = "read" => csv_idx = Len(all_dataframes) + skipped + 1
    /\ loader_pc \in {"loaded", "prepared"} =>
          /\ Len(all_dataframes) + skipped = NumSources
          /\ error_db.rows = Concat(all_dataframes)

\* C17 as stated: a source that is missing or unreadable is skipped and the
\* remaining sources are still loaded; when every source fails, the corpus
\* handed on is empty.
C17_AllFailEmpty ==
    /\ SourcesAccounted
    /\ loader_pc = "prepared" /\ skipped = NumSources => test_data = <<>>

\* C17 amended: a source that is missing or unreadable is skipped and the
\* remaining sources are still loaded; when every source fails,
\* load_error_database returns None and the corpus handed on is the
\* built-in default dataset of 13 test cases.
C17_AllFailDefault ==
    /\ SourcesAccounted
    /\ loader_pc \in {"loaded", "prepared"} /\ skipped = NumSources =>
          error_db = NoTable
    /\ loader_pc = "prepared" /\ skipped = NumSources =>
          test_data = prepare_default_dataset /\ Len(test_data) = 13
    /\ loader_pc = "prepared" => Len(test_data) > 0

\* one source failed, a later one was read, and its rows were handed on
C17_Witness ==
    /\ loader_pc = "prepared"
    /\ skipped = 2
    /\ Len(all_dataframes) = 1
    /\ Len(test_data) = MaxRows
    /\ test_data[1].error_type = "syntax"

\* the step ends the evaluation of the current row
RowCompletes == pc \in {"respond", "judge"} /\ pc' = "loop" /\ idx' = idx + 1

\* the step begins a row: lines 91-116, up to the first responder call
RowBegins == pc = "loop" /\ pc' = "respond" /\ idx' = idx

\* C18 as stated: the per-kind and per-difficulty counts, the pass counts,
\* the format count, the guidance sum and the low-score buffer change only
\* in the step that completes a row's evaluation, never before or between
\* its responder and grader calls.
C18_CountersAfterRow ==
    [][<<type_counts, difficulty_counts, stats, error_samples>>'
           # <<type_counts, difficulty_counts, stats, error_samples>>
         => RowCompletes]_vars

\* C18 amended: the pass counts, the format count, the guidance sum and the
\* low-score buffer change only in the step that completes a row's
\* evaluation; the per-kind and per-difficulty counts are incremented for a
\* row when the row is begun, before its first responder call, and change
\* at no other point.
C18_CountersByPhase ==
    /\ [][<<stats, error_samples>>' # <<stats, error_samples>>
            => RowCompletes]_vars
    /\ [][<<type_counts, difficulty_counts>>'
              # <<type_counts, difficulty_counts>> => RowBegins]_vars
    /\ [][RowBegins =>
            /\ type_counts'[corpus[idx].error_type]
                  = type_counts[corpus[idx].error_type] + 1
            /\ difficulty_counts'[corpus[idx].difficulty]
                  = difficulty_counts[corpus[idx].difficulty] + 1]_vars

\* the first row is counted while the responder is asked a second time and
\* nothing else has been recorded
C18_Witness ==
    /\ pc = "respond"
    /\ idx = 1
    /\ retry = 1
    /\ type_counts[corpus[1].error_type] = 1
    /\ difficulty_counts[corpus[1].difficulty] = 1
    /\ stats.format_correct = 0
    /\ error_samples = <<>>

\* the strata (error_type, difficulty) of the list handed to the sampler
Strata == {<<cases[i].error_type, cases[i].difficulty>> : i \in 1..Len(cases)}

\* records of the last call's result that belong to a stratum
FromStratum(key) ==
    Cardinality({i \in 1..Len(last_call.out) :
                    <<cases[last_call.out[i]].error_type,
                      cases[last_call.out[i]].difficulty>> = key})

\* max(1, max_samples // stratum_count) of the last call
Quota == Max(1, last_call.max_samples \div Cardinality(Strata))

\* the result holds min(quota, |stratum|) records or more of every stratum
EveryStratumServed ==
    \A key \in Strata :
        FromStratum(key) >= Min(Quota, Len(Group(cases, key)))

PassedRows == Cardinality({i \in 1..Len(perf_vector) : perf_vector[i] = 1})

====
